---- MODULE Spec2Model ----
(***************************************************************************)
(* Model of the local failover proxy (startProxyServer and its fetch       *)
(* handler) and of the client retry orchestrator (runClaude and            *)
(* runClaudeWithRetry) of base-action/src/proxy-server.ts, of run() of     *)
(* base-action/src/index.ts, which starts the one and then the other, and  *)
(* of getProxyMode of the earlier router.                                  *)
(*                                                                         *)
(* JavaScript runs every handler to its next await without interruption,   *)
(* so each action below is one such run: from the resumption of an await   *)
(* (or the arrival of an event) to the next suspension or to the return.   *)
(***************************************************************************)
EXTENDS Integers, Sequences, FiniteSets, TLC

\* ---------------------------------------------------------------- bounds

\* Inbound requests the listener receives in one run.
MaxRequests == 2
\* Largest maxAttempts handed to runClaudeWithRetry.
MaxAttemptsBound == 3
\* Most stdout "data" events one client process emits.
MaxChunks == 2
\* Direct calls of stopProxyServer in one run.
MaxStopCalls == 2

Requests == 1..MaxRequests

\* ------------------------------------------------------------ environment

\* A credential variable of process.env: absent, only whitespace, or a value.
CredValues == {"unset", "blank", "set"}
\* CLAUDE_CODE_USE_BEDROCK
FlagValues == {"unset", "0", "1"}

\* Mutant: the test without the trim.
TrimmedWithoutTrim(v) == v # "unset"
\* s?.trim() is truthy
Trimmed(v) == v = "set"
\* !!s
Truthy(v) == v # "unset"

VARIABLES
    env,            \* process.env: the two credentials and the Bedrock flag
    exited,         \* process.exit was called
    exitCode,       \* with this code
    proxyServer,    \* module variable proxyServer: "null" or "listening"
    proxyPort,      \* run()'s const proxyPort: what await startProxyServer() gave
    signalHandlers, \* shutdownHandler is registered for SIGTERM and SIGINT
    stopCalls,      \* calls of stopProxyServer made so far
    runPc,          \* where run() is: "start", or "routed" once past the routing
    stats,          \* module constant stats: ProxyStats
    request,        \* per request: the path and method of the Request received
    pc,             \* per request: where its fetch handler is suspended
    bedrockError,   \* per request: the handler's local bedrockError
    response,       \* per request: the Response the handler returned
    bedrockResponse,\* per request: the status of the handler's local bedrockResponse
    calls,          \* per request: the forward calls made, started and resolved
    delta           \* per request: what the handler added to each counter

VARIABLES
    opc,               \* where runClaudeWithRetry is suspended
    maxAttempts,       \* retryOptions.maxAttempts
    attempt,           \* the loop variable
    initialBedrock,    \* const initialBedrock
    hasAnthropicKey,   \* const hasAnthropicKey
    lastError,         \* let lastError
    everUsedAnthropic, \* let everUsedAnthropic
    inner,             \* the pending runClaude is the failover call of line 593
    output,            \* runClaude's let output
    hasRateLimitError, \* runClaude's let hasRateLimitError
    nchunks,           \* "data" events the current client has emitted
    alive,             \* client processes spawned and not yet seen to exit
    spawnLog,          \* every client spawn, in order, with how it ended
    conclusion,        \* core.setOutput("conclusion", ...)
    thrown             \* what runClaudeWithRetry threw

startVars == <<proxyPort, signalHandlers, stopCalls, runPc>>
proxyVars == <<proxyServer, startVars, stats, request, pc, bedrockError, bedrockResponse, response, calls,
               delta>>
retryVars == <<opc, maxAttempts, attempt, initialBedrock, hasAnthropicKey, lastError,
               everUsedAnthropic, inner, output, hasRateLimitError, nchunks, alive,
               spawnLog, conclusion, thrown>>
vars == <<env, exited, exitCode, proxyVars, retryVars>>

\* ------------------------------------------------------------------ stats

ZeroStats ==
    [requests |-> 0, successes |-> 0, failures |-> 0,
     bedrockSuccesses |-> 0, anthropicFailovers |-> 0]

NoLastError == [msg |-> "undefined", status |-> 0]

InitialStats == [counters |-> ZeroStats, lastError |-> NoLastError]

\* stats.<field>++
Inc(counters, field) == [counters EXCEPT ![field] = @ + 1]

\* ------------------------------------------------------------ credentials

\* Mutant: the token alone is enough to start.
ValidateCredentialsTokenOnly(e) == Trimmed(e.AWS_BEARER_TOKEN_BEDROCK)
\* Mutant: nothing is validated.
ValidateCredentialsSkipped(e) == TRUE
\* validateCredentials returns (TRUE) or throws (FALSE)
ValidateCredentials(e) ==
    /\ Trimmed(e.AWS_BEARER_TOKEN_BEDROCK)
    /\ Trimmed(e.ANTHROPIC_API_KEY)

\* shouldUseProxy()
ShouldUseProxy(e) == ValidateCredentials(e)

\* getProxyMode() of the earlier router
GetProxyMode(e) ==
    LET hasBedrockToken == Trimmed(e.AWS_BEARER_TOKEN_BEDROCK)
        hasAnthropicKey_ == Trimmed(e.ANTHROPIC_API_KEY)
    IN  IF hasBedrockToken /\ hasAnthropicKey_ THEN "bedrock-anthropic"
        ELSE IF hasAnthropicKey_ THEN "anthropic-only"
        ELSE "direct"

\* -------------------------------------------------------------- upstreams

UpstreamStatuses == {200, 429, 500}
\* Response.ok
Ok(status) == status >= 200 /\ status <= 299

\* What an awaited upstream fetch can do: resolve with a status, or reject.
Rejected == [threw |-> TRUE, status |-> 0]
Resolved(status) == [threw |-> FALSE, status |-> status]
UpstreamOutcomes == {Resolved(s) : s \in UpstreamStatuses} \cup {Rejected}

NoError == [msg |-> "undefined", status |-> 0]
BedrockReturned(status) == [msg |-> "Bedrock returned", status |-> status]
BedrockRequestError == [msg |-> "Bedrock request error", status |-> 0]
AnthropicReturned(status) == [msg |-> "Anthropic returned", status |-> status]
ErrorString == [msg |-> "String(error)", status |-> 0]

NoResponse ==
    [kind |-> "none", status |-> 0, bedrockError |-> NoError,
     anthropicError |-> NoError, stats |-> InitialStats]

\* Mutant: the health document is built once, before any request was counted.
HealthResponseStale(s) == [NoResponse EXCEPT !.kind = "health", !.status = 200]
\* Response.json(stats)
HealthResponse(s) == [NoResponse EXCEPT !.kind = "health", !.status = 200, !.stats = s]
\* new Response('Not Found', { status: 404 })
NotFoundResponse == [NoResponse EXCEPT !.kind = "notFound", !.status = 404]
\* return bedrockResponse
BedrockResponse(status) == [NoResponse EXCEPT !.kind = "bedrock", !.status = status]
\* return anthropicResponse
AnthropicResponse(status) == [NoResponse EXCEPT !.kind = "anthropic", !.status = status]
\* the aggregated failure document
FailureDocument(bErr, aErr, s) ==
    [kind |-> "failure", status |-> 500, bedrockError |-> bErr,
     anthropicError |-> aErr, stats |-> s]
\* the handler rejected: the server answers for it
UnhandledResponse == [NoResponse EXCEPT !.kind = "unhandled", !.status = 500]

\* -------------------------------------------------------------------- Init

EnvSpace ==
    [AWS_BEARER_TOKEN_BEDROCK : CredValues,
     ANTHROPIC_API_KEY : CredValues,
     CLAUDE_CODE_USE_BEDROCK : FlagValues,
     ANTHROPIC_BASE_URL : {"unset"}]

\* no Request received yet
NoRequest == [path |-> "none", method |-> "none"]

ProxyInit ==
    /\ proxyServer = "null"
    /\ proxyPort = "unset"
    /\ signalHandlers = FALSE
    /\ stopCalls = 0
    /\ runPc = "start"
    /\ stats = InitialStats
    /\ request = [r \in Requests |-> NoRequest]
    /\ pc = [r \in Requests |-> "idle"]
    /\ bedrockError = [r \in Requests |-> NoError]
    /\ bedrockResponse = [r \in Requests |-> 0]
    /\ response = [r \in Requests |-> NoResponse]
    /\ calls = [r \in Requests |-> <<>>]
    /\ delta = [r \in Requests |-> ZeroStats]

\* lastError and thrown: undefined, or an Error and the client run it came from
NoErrorYet == [kind |-> "undefined", spawn |-> 0, code |-> 0]
\* new Error(`Claude CLI failed with rate limit error (exit code ${exitCode})`)
RateLimitError(spawn, code) == [kind |-> "rate limit", spawn |-> spawn, code |-> code]
\* what a rejected mkfifo throws
PrepareError == [kind |-> "other", spawn |-> 0, code |-> 0]
NothingThrown == [kind |-> "nothing", spawn |-> 0, code |-> 0]

RetryInit ==
    /\ opc = "idle"
    /\ maxAttempts = 0
    /\ attempt = 0
    /\ initialBedrock = FALSE
    /\ hasAnthropicKey = FALSE
    /\ lastError = NoErrorYet
    /\ everUsedAnthropic = FALSE
    /\ inner = FALSE
    /\ output = <<>>
    /\ hasRateLimitError = FALSE
    /\ nchunks = 0
    /\ alive = 0
    /\ spawnLog = <<>>
    /\ conclusion = "unset"
    /\ thrown = NothingThrown

Init ==
    /\ env \in EnvSpace
    /\ exited = FALSE
    /\ exitCode = 0
    /\ ProxyInit
    /\ RetryInit

\* ------------------------------------------------------- startProxyServer

\* Mutant: without credentials startProxyServer resolves with the port and
\* starts no listener.
StartProxyServerWithoutListener ==
    /\ ~exited
    /\ proxyServer = "null"
    /\ proxyPort = "unset"
    /\ proxyPort' = "PROXY_PORT"
    /\ IF ValidateCredentials(env)
       THEN /\ proxyServer' = "listening"
            /\ signalHandlers' = TRUE
       ELSE UNCHANGED <<proxyServer, signalHandlers>>
    /\ UNCHANGED <<env, exited, exitCode, stats, pc, bedrockError, bedrockResponse,
                   response, calls, delta, request, stopCalls, runPc, retryVars>>

StartProxyServer ==
    /\ ~exited
    /\ proxyServer = "null"
    /\ proxyPort = "unset"
    /\ IF ValidateCredentials(env)
       THEN \* Bun.serve; the shutdown handlers are registered; the port is returned
            /\ proxyServer' = "listening"
            /\ signalHandlers' = TRUE
            /\ proxyPort' = "PROXY_PORT"
            /\ UNCHANGED <<exited, exitCode>>
       ELSE \* validateCredentials throws; run() catches and exits
            /\ exited' = TRUE
            /\ exitCode' = 1
            /\ UNCHANGED <<proxyServer, signalHandlers, proxyPort>>
    /\ UNCHANGED <<env, stats, pc, bedrockError, bedrockResponse, response, calls, delta,
                   request, stopCalls, runPc, retryVars>>

\* ----------------------------------------------------- the fetch handler

Paths == {"/health", "/v1/messages", "/other"}
Methods == {"POST", "GET"}

\* The entries of calls: a forward call's start and its resolution.
CallStart(provider, credential) ==
    [provider |-> provider, event |-> "start", credential |-> credential,
     outcome |-> Rejected]
CallEnd(provider, outcome) ==
    [provider |-> provider, event |-> "end", credential |-> "unset",
     outcome |-> outcome]

\* What the handler adds to the counters at each point.
OnAccepted(c) == Inc(c, "requests")

\* Mutant: a primary success that is not attributed to the primary.
OnBedrockOkUnattributed(c) == Inc(c, "successes")
OnBedrockOk(c) == Inc(Inc(c, "successes"), "bedrockSuccesses")

\* Mutant: requests counted once per upstream attempt.
OnFailoverCountsRequest(c) == Inc(Inc(c, "anthropicFailovers"), "requests")
OnFailover(c) == Inc(c, "anthropicFailovers")

\* Mutant: the success branch of the primary pasted into the secondary's.
OnAnthropicOkAsBedrock(c) == Inc(Inc(c, "successes"), "bedrockSuccesses")
OnAnthropicOk(c) == Inc(c, "successes")
OnAnthropicFailed(c) == Inc(c, "failures")

\* Mutant: the routing test without the method.
IsNotFoundByPathOnly(path, method) == path # "/v1/messages"
\* url.pathname !== '/v1/messages' || req.method !== 'POST'
IsNotFound(path, method) == path # "/v1/messages" \/ method # "POST"

\* Requests are numbered in their order of arrival.
Arrives(r) ==
    /\ ~exited
    /\ proxyServer = "listening"
    /\ pc[r] = "idle"
    /\ IF r = 1 THEN TRUE ELSE pc[r - 1] # "idle"

\* A request sent while nothing listens on PROXY_PORT (startProxyServer has not
\* run, or it threw, or the process has exited): the connection is refused and
\* no handler runs.
Refused(r) ==
    /\ exited \/ proxyServer = "null"
    /\ pc[r] = "idle"
    /\ IF r = 1 THEN TRUE ELSE pc[r - 1] # "idle"
    /\ pc' = [pc EXCEPT ![r] = "refused"]
    /\ UNCHANGED <<env, exited, exitCode, proxyServer, stats, request, bedrockError,
                   bedrockResponse, response, calls, delta, startVars, retryVars>>

\* fetch(req) up to its first await, or to its return
Fetch(r, path, method) ==
    /\ Arrives(r)
    /\ IF path = "/health"
       THEN /\ response' = [response EXCEPT ![r] = HealthResponse(stats)]
            /\ pc' = [pc EXCEPT ![r] = "done"]
            /\ UNCHANGED <<stats, delta>>
       ELSE IF IsNotFound(path, method)
       THEN /\ response' = [response EXCEPT ![r] = NotFoundResponse]
            /\ pc' = [pc EXCEPT ![r] = "done"]
            /\ UNCHANGED <<stats, delta>>
       ELSE /\ stats' = [stats EXCEPT !.counters = OnAccepted(@)]
            /\ delta' = [delta EXCEPT ![r] = OnAccepted(@)]
            /\ pc' = [pc EXCEPT ![r] = "readBody"]
            /\ UNCHANGED response
    /\ request' = [request EXCEPT ![r] = [path |-> path, method |-> method]]
    /\ UNCHANGED <<env, exited, exitCode, proxyServer, bedrockError,
                   bedrockResponse, calls, startVars, retryVars>>

\* Mutant: both providers are called at once, the secondary not waiting for the
\* primary to resolve.
BodyReadRacing(r) ==
    /\ ~exited
    /\ pc[r] = "readBody"
    /\ calls' = [calls EXCEPT
                   ![r] = <<CallStart("bedrock", env.AWS_BEARER_TOKEN_BEDROCK),
                           CallStart("anthropic", env.ANTHROPIC_API_KEY)>>]
    /\ pc' = [pc EXCEPT ![r] = "awaitBedrock"]
    /\ UNCHANGED <<env, exited, exitCode, proxyServer, stats, bedrockError,
                   bedrockResponse, response, delta, request, startVars, retryVars>>

\* await req.text() resolves; forwardToBedrock runs to its fetch
BodyRead(r) ==
    /\ ~exited
    /\ pc[r] = "readBody"
    /\ calls' = [calls EXCEPT
                   ![r] = Append(@, CallStart("bedrock", env.AWS_BEARER_TOKEN_BEDROCK))]
    /\ pc' = [pc EXCEPT ![r] = "awaitBedrock"]
    /\ UNCHANGED <<env, exited, exitCode, proxyServer, stats, bedrockError,
                   bedrockResponse, response, delta, request, startVars, retryVars>>

\* await req.text() rejects, outside every try: the handler rejects
BodyReadFails(r) ==
    /\ ~exited
    /\ pc[r] = "readBody"
    /\ response' = [response EXCEPT ![r] = UnhandledResponse]
    /\ pc' = [pc EXCEPT ![r] = "done"]
    /\ UNCHANGED <<env, exited, exitCode, proxyServer, stats, bedrockError,
                   bedrockResponse, calls, delta, request, startVars, retryVars>>

\* stats.anthropicFailovers++ and forwardToAnthropic up to its fetch
Failover(r, bErr, log) ==
    /\ bedrockError' = [bedrockError EXCEPT ![r] = bErr]
    /\ stats' = [stats EXCEPT !.counters = OnFailover(@)]
    /\ delta' = [delta EXCEPT ![r] = OnFailover(@)]
    /\ calls' = [calls EXCEPT
                   ![r] = Append(log, CallStart("anthropic", env.ANTHROPIC_API_KEY))]
    /\ pc' = [pc EXCEPT ![r] = "awaitAnthropic"]

\* await forwardToBedrock(...) resolves or rejects
BedrockResolves(r, outcome) ==
    /\ ~exited
    /\ pc[r] = "awaitBedrock"
    /\ LET log == Append(calls[r], CallEnd("bedrock", outcome)) IN
       IF outcome.threw
       THEN /\ Failover(r, BedrockRequestError, log)
            /\ UNCHANGED <<bedrockResponse, response>>
       ELSE IF Ok(outcome.status)
       THEN /\ stats' = [stats EXCEPT !.counters = OnBedrockOk(@)]
            /\ delta' = [delta EXCEPT ![r] = OnBedrockOk(@)]
            /\ response' = [response EXCEPT ![r] = BedrockResponse(outcome.status)]
            /\ calls' = [calls EXCEPT ![r] = log]
            /\ pc' = [pc EXCEPT ![r] = "done"]
            /\ UNCHANGED <<bedrockError, bedrockResponse>>
       ELSE /\ bedrockResponse' = [bedrockResponse EXCEPT ![r] = outcome.status]
            /\ calls' = [calls EXCEPT ![r] = log]
            /\ pc' = [pc EXCEPT ![r] = "awaitBedrockText"]
            /\ UNCHANGED <<stats, delta, bedrockError, response>>
    /\ UNCHANGED <<env, exited, exitCode, proxyServer, request, startVars, retryVars>>

\* await bedrockResponse.text() resolves, or rejects into the catch
BedrockTextRead(r, threw) ==
    /\ ~exited
    /\ pc[r] = "awaitBedrockText"
    /\ Failover(r, IF threw THEN BedrockRequestError
                           ELSE BedrockReturned(bedrockResponse[r]), calls[r])
    /\ UNCHANGED <<env, exited, exitCode, proxyServer, bedrockResponse, response,
                   request, startVars, retryVars>>

\* await forwardToAnthropic(...) resolves or rejects
AnthropicResolves(r, outcome) ==
    /\ ~exited
    /\ pc[r] = "awaitAnthropic"
    /\ calls' = [calls EXCEPT ![r] = Append(@, CallEnd("anthropic", outcome))]
    /\ pc' = [pc EXCEPT ![r] = "done"]
    /\ IF outcome.threw
       THEN LET after == [counters |-> OnAnthropicFailed(stats.counters),
                          lastError |-> ErrorString] IN
            /\ stats' = after
            /\ delta' = [delta EXCEPT ![r] = OnAnthropicFailed(@)]
            /\ response' = [response EXCEPT
                    ![r] = FailureDocument(bedrockError[r], ErrorString, after)]
       ELSE IF Ok(outcome.status)
       THEN /\ stats' = [stats EXCEPT !.counters = OnAnthropicOk(@)]
            /\ delta' = [delta EXCEPT ![r] = OnAnthropicOk(@)]
            /\ response' = [response EXCEPT ![r] = AnthropicResponse(outcome.status)]
       ELSE /\ stats' = [counters |-> OnAnthropicFailed(stats.counters),
                         lastError |-> AnthropicReturned(outcome.status)]
            /\ delta' = [delta EXCEPT ![r] = OnAnthropicFailed(@)]
            /\ response' = [response EXCEPT ![r] = AnthropicResponse(outcome.status)]
    /\ UNCHANGED <<env, exited, exitCode, proxyServer, bedrockError, bedrockResponse,
                   request, startVars, retryVars>>

ProxyNext ==
    \/ StartProxyServer
    \/ \E r \in Requests : Refused(r)
    \/ \E r \in Requests, path \in Paths, method \in Methods : Fetch(r, path, method)
    \/ \E r \in Requests : BodyRead(r)
    \/ \E r \in Requests : BodyReadFails(r)
    \/ \E r \in Requests, outcome \in UpstreamOutcomes : BedrockResolves(r, outcome)
    \/ \E r \in Requests, threw \in BOOLEAN : BedrockTextRead(r, threw)
    \/ \E r \in Requests, outcome \in UpstreamOutcomes : AnthropicResolves(r, outcome)

ProxySpec == Init /\ [][ProxyNext]_vars

\* ------------------------------------------------------------- shutdown

Signals == {"SIGTERM", "SIGINT"}

\* Mutant: the listener is stopped and the variable keeps the server.
AfterStopKeepsServer(p) == p
\* stopProxyServer: if (proxyServer) { proxyServer.stop(); proxyServer = null }
AfterStop(p) == IF p # "null" THEN "null" ELSE p

\* stopProxyServer(), called directly
StopProxyServer ==
    /\ ~exited
    /\ stopCalls < MaxStopCalls
    /\ stopCalls' = stopCalls + 1
    /\ proxyServer' = AfterStop(proxyServer)
    /\ UNCHANGED <<env, exited, exitCode, proxyPort, signalHandlers, runPc, stats, request, pc,
                   bedrockError, bedrockResponse, response, calls, delta, retryVars>>

\* shutdownHandler: stopProxyServer(); process.exit(0)
ShutdownHandler(sig) ==
    /\ ~exited
    /\ signalHandlers
    /\ stopCalls' = stopCalls + 1
    /\ proxyServer' = AfterStop(proxyServer)
    /\ exited' = TRUE
    /\ exitCode' = 0
    /\ UNCHANGED <<env, proxyPort, signalHandlers, runPc, stats, request, pc, bedrockError,
                   bedrockResponse, response, calls, delta, retryVars>>

\* A signal before process.on has registered the handler: the default
\* disposition ends the process, which reports 128 + the signal's number.
SignalKills(sig) ==
    /\ ~exited
    /\ ~signalHandlers
    /\ exited' = TRUE
    /\ exitCode' = IF sig = "SIGTERM" THEN 143 ELSE 130
    /\ UNCHANGED <<env, proxyServer, startVars, stats, request, pc, bedrockError,
                   bedrockResponse, response, calls, delta, retryVars>>

\* Inbound requests the listener receives in a run with signals.
MaxShutdownRequests == 1
ShutdownRequests == 1..MaxShutdownRequests

ShutdownNext ==
    \/ StartProxyServer
    \/ \E r \in ShutdownRequests : Refused(r)
    \/ \E r \in ShutdownRequests, path \in Paths, method \in Methods :
          Fetch(r, path, method)
    \/ \E r \in ShutdownRequests : BodyRead(r)
    \/ \E r \in ShutdownRequests : BodyReadFails(r)
    \/ \E r \in ShutdownRequests, outcome \in UpstreamOutcomes :
          BedrockResolves(r, outcome)
    \/ \E r \in ShutdownRequests, threw \in BOOLEAN : BedrockTextRead(r, threw)
    \/ \E r \in ShutdownRequests, outcome \in UpstreamOutcomes :
          AnthropicResolves(r, outcome)
    \/ StopProxyServer
    \/ \E sig \in Signals : ShutdownHandler(sig)
    \/ \E sig \in Signals : SignalKills(sig)

ShutdownSpec == Init /\ [][ShutdownNext]_vars

\* ------------------------------------------------- the proxy's properties

\* The request passed the routing of the handler: a POST to /v1/messages.
Accepted(r) == request[r] = [path |-> "/v1/messages", method |-> "POST"]

\* No handler is suspended.
Settled == \A r \in Requests : pc[r] \in {"idle", "refused", "done"}

\* The resolutions of request r's forward calls to a provider.
Ends(r, provider) ==
    {i \in DOMAIN calls[r] :
        calls[r][i].provider = provider /\ calls[r][i].event = "end"}
Succeeded(r, provider) ==
    \E i \in Ends(r, provider) :
        ~calls[r][i].outcome.threw /\ Ok(calls[r][i].outcome.status)
Failed(r, provider) ==
    \E i \in Ends(r, provider) :
        calls[r][i].outcome.threw \/ ~Ok(calls[r][i].outcome.status)
Called(r, provider) == \E i \in DOMAIN calls[r] : calls[r][i].provider = provider

RECURSIVE DeltaSum(_, _)
DeltaSum(n, field) == IF n = 0 THEN 0 ELSE delta[n][field] + DeltaSum(n - 1, field)

\* Every counter of stats is the sum of what the handlers added to it.
StatsAreTheSum ==
    \A field \in DOMAIN ZeroStats :
        stats.counters[field] = DeltaSum(MaxRequests, field)

\* C1: once every request's handling has completed, requests = successes +
\* failures, and each accepted request is counted in exactly one of successes
\* and failures.
C1_CompletedRequestsBalance ==
    Settled =>
        /\ stats.counters.requests = stats.counters.successes + stats.counters.failures
        /\ \A r \in Requests :
              Accepted(r) => delta[r].successes + delta[r].failures = 1

\* C2: every accepted request increments stats.requests exactly once, whether it
\* makes one upstream attempt or two; with N requests accepted, under any
\* interleaving of their handlers, stats.requests is N.
C2_RequestsCountedOnce ==
    /\ StatsAreTheSum
    /\ stats.counters.requests = Cardinality({r \in Requests : Accepted(r)})
    /\ \A r \in Requests : delta[r].requests = IF Accepted(r) THEN 1 ELSE 0

\* Two accepted requests have completed, one after one upstream attempt and one
\* after two.
C2_TwoRequestsCounted ==
    /\ Settled
    /\ stats.counters.requests = 2
    /\ \E r1, r2 \in Requests :
          /\ Called(r1, "bedrock") /\ ~Called(r1, "anthropic")
          /\ Called(r2, "bedrock") /\ Called(r2, "anthropic")

\* C3: a request whose primary attempt returned 2xx has added exactly 1 to
\* bedrockSuccesses and to successes, nothing to anthropicFailovers and failures,
\* and the secondary forwarder is never called for it.
C3_PrimarySuccess ==
    /\ StatsAreTheSum
    /\ \A r \in Requests :
          Succeeded(r, "bedrock") =>
              /\ pc[r] = "done"
              /\ delta[r] = [ZeroStats EXCEPT !.requests = 1, !.successes = 1,
                                              !.bedrockSuccesses = 1]
              /\ ~Called(r, "anthropic")

\* A primary 2xx was counted while another request was in the middle of its
\* failover.
C3_PrimarySucceeded ==
    \E r1, r2 \in Requests :
        /\ Succeeded(r1, "bedrock")
        /\ pc[r2] = "awaitAnthropic"

\* C4: a request whose primary attempt returned any non-2xx status or threw, and
\* whose secondary attempt returned 2xx, has added exactly 1 to anthropicFailovers
\* and to successes, and nothing to bedrockSuccesses and failures.
C4_FailoverSuccess ==
    /\ StatsAreTheSum
    /\ \A r \in Requests :
          (Failed(r, "bedrock") /\ Succeeded(r, "anthropic")) =>
              delta[r] = [ZeroStats EXCEPT !.requests = 1, !.successes = 1,
                                          !.anthropicFailovers = 1]

\* One request failed over after a primary 500, another after a primary transport
\* error, and both secondaries returned 2xx.
C4_FailedOverTwice ==
    \E r1, r2 \in Requests :
        /\ \E i \in Ends(r1, "bedrock") : calls[r1][i].outcome = Resolved(500)
        /\ \E i \in Ends(r2, "bedrock") : calls[r2][i].outcome = Rejected
        /\ Succeeded(r1, "anthropic")
        /\ Succeeded(r2, "anthropic")

\* C5: a request for which both providers failed (by a non-2xx status or by a
\* transport error) has added exactly 1 to failures, and its response has status
\* 500 and carries the error descriptions of both providers.
C5_BothFailedAggregated ==
    \A r \in Requests :
        (Failed(r, "bedrock") /\ Failed(r, "anthropic")) =>
            /\ delta[r].failures = 1
            /\ response[r].status = 500
            /\ response[r].bedrockError # NoError
            /\ response[r].anthropicError # NoError

\* C6: within one request there is at most one forward call to the primary and at
\* most one to the secondary, and the primary's call starts and resolves before
\* the secondary's starts: the calls are a prefix of primary start, primary end,
\* secondary start, secondary end.
C6_OneAttemptPerProvider ==
    \A r \in Requests :
        /\ Len(calls[r]) <= 4
        /\ \A i \in DOMAIN calls[r] :
              /\ calls[r][i].provider = (IF i <= 2 THEN "bedrock" ELSE "anthropic")
              /\ calls[r][i].event = (IF i % 2 = 1 THEN "start" ELSE "end")

\* A request has called both providers and both calls have resolved.
C6_BothProvidersCalled ==
    \E r \in Requests : pc[r] = "done" /\ Len(calls[r]) = 4

\* -------------------------------------------------------------- runClaude

\* The rate-limit indicators of the stdout "data" handler, as character sequences.
Indicator429 == <<"4", "2", "9">>
IndicatorTooMany ==
    <<"T", "o", "o", " ", "m", "a", "n", "y", " ", "r", "e", "q", "u", "e", "s", "t", "s">>
IndicatorRateLimit == <<"r", "a", "t", "e", " ", "l", "i", "m", "i", "t">>
IndicatorThrottl == <<"t", "h", "r", "o", "t", "t", "l">>

\* String.prototype.includes
Includes(text, pattern) ==
    \E i \in 0..(Len(text) - Len(pattern)) :
        SubSeq(text, i + 1, i + Len(pattern)) = pattern

\* the condition of the "data" handler on one chunk
ChunkHasRateLimit(text) ==
    \/ Includes(text, Indicator429)
    \/ Includes(text, IndicatorTooMany)
    \/ Includes(text, IndicatorRateLimit)
    \/ Includes(text, IndicatorThrottl)

\* The chunks a client writes to stdout.
Chunks == {<<"4", "2", "9">>, <<"4", "2">>, <<"9">>}

\* How the awaited promise of a client resolves: "close" with a numeric code, "close"
\* with a null code (the client was killed by a signal), or "error".
ExitEvents ==
    {[how |-> "close", code |-> c] : c \in {0, 2}}
        \cup {[how |-> "signal", code |-> 0], [how |-> "error", code |-> 0]}

\* resolve(code || 0) on "close", resolve(1) on "error"
ExitCodeOf(ev) ==
    IF ev.how = "error" THEN 1
    ELSE IF ev.how = "signal" THEN 0
    ELSE ev.code

\* Mutant: the rate-limit flag is looked at before the exit code.
RunOutcomeFlagFirst(code, detected) ==
    IF detected THEN "throw"
    ELSE IF code = 0 THEN "return"
    ELSE "exit"

\* Mutant: every failed run is thrown as retryable.
RunOutcomeRetryAnyFailure(code, detected) ==
    IF code = 0 THEN "return" ELSE "throw"

\* What runClaude does with the exit code: return, process.exit, or throw the
\* rate-limit error.
RunOutcome(code, detected) ==
    IF code = 0 THEN "return"
    ELSE IF detected THEN "throw"
    ELSE "exit"

\* error.message.includes("rate limit")
IsRateLimitMessage(err) == err.kind = "rate limit"

\* A spawned client, as spawnLog records it.
Spawned(a, isInner, e) ==
    [attempt |-> a, inner |-> isInner,
     flag |-> e.CLAUDE_CODE_USE_BEDROCK, token |-> e.AWS_BEARER_TOKEN_BEDROCK,
     baseUrl |-> e.ANTHROPIC_BASE_URL,
     how |-> "running", code |-> 0, exitCode |-> 0, detected |-> FALSE,
     indicated |-> FALSE]

\* ----------------------------------------------------- runClaudeWithRetry

AttemptValues == 0..MaxAttemptsBound

\* Mutant: the loop body without the reset of the flag.
LoopTestWithoutReset(a, m, useBedrock, err) ==
    /\ attempt' = a
    /\ IF a <= m
       THEN /\ opc' = "prepare"
            /\ inner' = FALSE
            /\ UNCHANGED <<env, thrown>>
       ELSE /\ opc' = "thrown"
            /\ thrown' = err
            /\ UNCHANGED <<env, inner>>

\* Mutant: the loop runs one attempt too many.
LoopTestOneTooMany(a, m, useBedrock, err) ==
    /\ attempt' = a
    /\ IF a <= m + 1
       THEN /\ env' = IF useBedrock
                      THEN [env EXCEPT !.CLAUDE_CODE_USE_BEDROCK = "1"]
                      ELSE env
            /\ opc' = "prepare"
            /\ inner' = FALSE
            /\ UNCHANGED thrown
       ELSE /\ opc' = "thrown"
            /\ thrown' = err
            /\ UNCHANGED <<env, inner>>

\* The test of the for loop for attempt a, then either the loop body up to the first
\* await of runClaude, or the throw after the loop.
LoopTest(a, m, useBedrock, err) ==
    /\ attempt' = a
    /\ IF a <= m
       THEN /\ env' = IF useBedrock
                      THEN [env EXCEPT !.CLAUDE_CODE_USE_BEDROCK = "1"]
                      ELSE env
            /\ opc' = "prepare"
            /\ inner' = FALSE
            /\ UNCHANGED thrown
       ELSE /\ opc' = "thrown"
            /\ thrown' = err
            /\ UNCHANGED <<env, inner>>

\* Mutant: the inner failover without the test for a secondary key.
ShouldFailoverWithoutKey(isInner, useBedrock, hasKey) == ~isInner /\ useBedrock
\* the condition of the immediate failover to Anthropic
ShouldFailover(isInner, useBedrock, hasKey) == ~isInner /\ useBedrock /\ hasKey

\* runClaudeWithRetry(promptPath, options, { maxAttempts: m })
RunClaudeWithRetry(m) ==
    /\ ~exited
    /\ opc = "idle"
    /\ maxAttempts' = m
    /\ initialBedrock' = (env.CLAUDE_CODE_USE_BEDROCK = "1")
    /\ hasAnthropicKey' = Truthy(env.ANTHROPIC_API_KEY)
    /\ LoopTest(1, m, env.CLAUDE_CODE_USE_BEDROCK = "1", lastError)
    /\ UNCHANGED <<exited, exitCode, proxyVars, lastError, everUsedAnthropic, output,
                   hasRateLimitError, nchunks, alive, spawnLog, conclusion>>

\* Mutant: a client is spawned without waiting for the previous one to exit.
ClientSpawnsWithoutWaiting ==
    /\ ~exited
    /\ opc \in {"prepare", "client"}
    /\ opc' = "client"
    /\ output' = <<>>
    /\ hasRateLimitError' = FALSE
    /\ nchunks' = 0
    /\ alive' = alive + 1
    /\ spawnLog' = Append(spawnLog, Spawned(attempt, inner, env))
    /\ UNCHANGED <<env, exited, exitCode, proxyVars, maxAttempts, attempt, initialBedrock,
                   hasAnthropicKey, lastError, everUsedAnthropic, inner, conclusion,
                   thrown>>

\* runClaude: the pipe is made and the client is spawned
ClientSpawns ==
    /\ ~exited
    /\ opc = "prepare"
    /\ opc' = "client"
    /\ output' = <<>>
    /\ hasRateLimitError' = FALSE
    /\ nchunks' = 0
    /\ alive' = alive + 1
    /\ spawnLog' = Append(spawnLog, Spawned(attempt, inner, env))
    /\ UNCHANGED <<env, exited, exitCode, proxyVars, maxAttempts, attempt, initialBedrock,
                   hasAnthropicKey, lastError, everUsedAnthropic, inner, conclusion,
                   thrown>>

\* runClaude: mkfifo rejects; the error is no rate-limit error and is thrown on
PrepareFails ==
    /\ ~exited
    /\ opc = "prepare"
    /\ lastError' = PrepareError
    /\ opc' = "thrown"
    /\ thrown' = PrepareError
    /\ UNCHANGED <<env, exited, exitCode, proxyVars, maxAttempts, attempt, initialBedrock,
                   hasAnthropicKey, everUsedAnthropic, inner, output, hasRateLimitError,
                   nchunks, alive, spawnLog, conclusion>>

\* claudeProcess.stdout.on("data", ...)
StdoutData(text) ==
    /\ ~exited
    /\ opc = "client"
    /\ nchunks < MaxChunks
    /\ nchunks' = nchunks + 1
    /\ hasRateLimitError' = (hasRateLimitError \/ ChunkHasRateLimit(text))
    /\ output' = output \o text
    /\ UNCHANGED <<env, exited, exitCode, proxyVars, opc, maxAttempts, attempt,
                   initialBedrock, hasAnthropicKey, lastError, everUsedAnthropic, inner,
                   alive, spawnLog, conclusion, thrown>>

\* The client's promise resolves: the rest of runClaude, and of the loop body up to
\* the next await.
ClientExits(ev) ==
    /\ ~exited
    /\ opc = "client"
    /\ LET code == ExitCodeOf(ev)
           n == Len(spawnLog)
           err == RateLimitError(n, code)
       IN
       /\ spawnLog' = [spawnLog EXCEPT ![n] =
              [@ EXCEPT !.how = ev.how, !.code = ev.code, !.exitCode = code,
                        !.detected = hasRateLimitError,
                        !.indicated = ChunkHasRateLimit(output)]]
       /\ alive' = alive - 1
       /\ output' = <<>>
       /\ hasRateLimitError' = FALSE
       /\ nchunks' = 0
       /\ IF RunOutcome(code, hasRateLimitError) = "return"
          THEN \* conclusion success; runClaude returns and so does the loop
               /\ conclusion' = "success"
               /\ opc' = "returned"
               /\ UNCHANGED <<env, exited, exitCode, attempt, lastError,
                              everUsedAnthropic, inner, thrown>>
          ELSE IF RunOutcome(code, hasRateLimitError) = "exit"
          THEN \* process.exit(exitCode)
               /\ conclusion' = "failure"
               /\ exited' = TRUE
               /\ exitCode' = code
               /\ opc' = "exited"
               /\ UNCHANGED <<env, attempt, lastError, everUsedAnthropic, inner, thrown>>
          ELSE \* runClaude throws the rate-limit error into the catch
               /\ lastError' = err
               /\ IF ~IsRateLimitMessage(err)
                  THEN /\ opc' = "thrown"
                       /\ thrown' = err
                       /\ UNCHANGED <<env, attempt, everUsedAnthropic, inner>>
                  ELSE IF ShouldFailover(inner, initialBedrock, hasAnthropicKey)
                  THEN /\ env' = [env EXCEPT !.CLAUDE_CODE_USE_BEDROCK = "0",
                                            !.AWS_BEARER_TOKEN_BEDROCK = "unset"]
                       /\ everUsedAnthropic' = TRUE
                       /\ inner' = TRUE
                       /\ opc' = "prepare"
                       /\ UNCHANGED <<attempt, thrown>>
                  ELSE /\ LoopTest(attempt + 1, maxAttempts, initialBedrock, err)
                       /\ UNCHANGED everUsedAnthropic
               /\ UNCHANGED <<exited, exitCode, conclusion>>
    /\ UNCHANGED <<proxyVars, maxAttempts, initialBedrock, hasAnthropicKey>>

RetryNext ==
    \/ \E m \in AttemptValues : RunClaudeWithRetry(m)
    \/ ClientSpawns
    \/ PrepareFails
    \/ \E text \in Chunks : StdoutData(text)
    \/ \E ev \in ExitEvents : ClientExits(ev)

RetrySpec == Init /\ [][RetryNext]_vars

\* The event loop resumes a pending continuation, and every spawned client exits.
RetryFairSpec ==
    /\ RetrySpec
    /\ WF_vars(\E m \in AttemptValues : RunClaudeWithRetry(m))
    /\ WF_vars(ClientSpawns \/ PrepareFails)
    /\ WF_vars(\E ev \in ExitEvents : ClientExits(ev))

\* ------------------------------------------- the orchestrator's properties

\* ---------------------------------------------------------------- run()

\* Inbound requests the listener receives while run() drives the orchestrator.
MaxRunRequests == 1

\* const { maxAttempts = 5 } = retryOptions || {}
DefaultMaxAttempts == 5
\* run() passes no retryOptions; the model caps the default by its bound.
RunMaxAttempts ==
    IF DefaultMaxAttempts <= MaxAttemptsBound THEN DefaultMaxAttempts ELSE MaxAttemptsBound

\* getProxyUrl()
GetProxyUrl == "http://127.0.0.1:18765"

\* The two run() of index.ts: the first sets ANTHROPIC_BASE_URL if
\* shouldUseProxy(), the second always.
RunVersions == {1, 2}

\* run(): await startProxyServer() has resolved; the client is routed to the
\* proxy
RunRoutes(version) ==
    /\ ~exited
    /\ proxyPort # "unset"
    /\ runPc = "start"
    /\ runPc' = "routed"
    /\ env' = IF version = 2 \/ ShouldUseProxy(env)
              THEN [env EXCEPT !.ANTHROPIC_BASE_URL = GetProxyUrl]
              ELSE env
    /\ UNCHANGED <<exited, exitCode, proxyServer, proxyPort, signalHandlers, stopCalls,
                   stats, request, pc, bedrockError, bedrockResponse, response, calls,
                   delta, retryVars>>

\* run(): the settings and the prompt are ready and runClaudeWithRetry is called
RunClaudeStarts ==
    /\ runPc = "routed"
    /\ RunClaudeWithRetry(RunMaxAttempts)

\* run(): runClaudeWithRetry threw; the catch sets the conclusion and exits
RunCatches ==
    /\ ~exited
    /\ opc = "thrown"
    /\ conclusion' = "failure"
    /\ exited' = TRUE
    /\ exitCode' = 1
    /\ UNCHANGED <<env, proxyVars, opc, maxAttempts, attempt, initialBedrock,
                   hasAnthropicKey, lastError, everUsedAnthropic, inner, output,
                   hasRateLimitError, nchunks, alive, spawnLog, thrown>>

RunRequests == 1..MaxRunRequests

\* The listener serves the client's requests while the orchestrator runs.
RunNext ==
    \/ StartProxyServer
    \/ \E version \in RunVersions : RunRoutes(version)
    \/ RunClaudeStarts
    \/ RunCatches
    \/ ClientSpawns
    \/ PrepareFails
    \/ \E text \in Chunks : StdoutData(text)
    \/ \E ev \in ExitEvents : ClientExits(ev)
    \/ \E r \in RunRequests : Refused(r)
    \/ \E r \in RunRequests, path \in Paths, method \in Methods : Fetch(r, path, method)
    \/ \E r \in RunRequests : BodyRead(r)
    \/ \E r \in RunRequests : BodyReadFails(r)
    \/ \E r \in RunRequests, outcome \in UpstreamOutcomes : BedrockResolves(r, outcome)
    \/ \E r \in RunRequests, threw \in BOOLEAN : BedrockTextRead(r, threw)
    \/ \E r \in RunRequests, outcome \in UpstreamOutcomes : AnthropicResolves(r, outcome)

RunSpec == Init /\ [][RunNext]_vars

\* run() and the orchestrator alone, no request reaching the listener.
StartupNext ==
    \/ StartProxyServer
    \/ \E version \in RunVersions : RunRoutes(version)
    \/ RunClaudeStarts
    \/ RunCatches
    \/ ClientSpawns
    \/ PrepareFails
    \/ \E text \in Chunks : StdoutData(text)
    \/ \E ev \in ExitEvents : ClientExits(ev)

StartupSpec == Init /\ [][StartupNext]_vars


\* The client of spawn k has exited.
HasExited(k) == spawnLog[k].how # "running"
\* It exited non-zero and a rate-limit indicator had been detected.
RateLimited(k) ==
    HasExited(k) /\ spawnLog[k].exitCode # 0 /\ spawnLog[k].detected
\* runClaudeWithRetry has returned, thrown, or ended the process.
Terminated == opc \in {"returned", "thrown", "exited"}

\* C7: if the k-th spawned client is the first to exit with code 0, every earlier
\* one having failed with a rate-limit indicator, the orchestrator returns success
\* after exactly k spawns: there is never a (k+1)-th.
C7_FirstSuccessEndsTheLoop ==
    \A k \in DOMAIN spawnLog :
        (spawnLog[k].how = "close" /\ spawnLog[k].code = 0) =>
            /\ k = Len(spawnLog)
            /\ \A j \in 1..(k - 1) : RateLimited(j)
            /\ opc = "returned"
            /\ conclusion = "success"
            /\ ~exited

\* The client exited 0 on attempt 2 of a larger bound, with an indicator in its
\* output, and the orchestrator returned after 2 spawns.
C7_SuccessOnAttemptTwo ==
    /\ opc = "returned"
    /\ maxAttempts > 2
    /\ Len(spawnLog) = 2
    /\ spawnLog[2].attempt = 2
    /\ spawnLog[2].how = "close" /\ spawnLog[2].code = 0
    /\ spawnLog[2].detected

\* C8: a client run that exits non-zero with no rate-limit indicator detected is
\* fatal: the process exits with the client's exit code and no further client is
\* spawned. So every spawn after the first directly follows a spawn that exited
\* non-zero with a detected indicator.
C8_UnclassifiedFailureIsFatal ==
    /\ \A k \in DOMAIN spawnLog :
          (HasExited(k) /\ spawnLog[k].exitCode # 0 /\ ~spawnLog[k].detected) =>
              /\ k = Len(spawnLog)
              /\ opc = "exited"
              /\ exited
              /\ exitCode = spawnLog[k].exitCode
    /\ \A k \in 2..Len(spawnLog) : RateLimited(k - 1)

\* The first client exited with code 2 and no indicator: the process has exited
\* with 2 after one spawn, although more attempts were allowed.
C8_FatalAfterOneSpawn ==
    /\ exited
    /\ exitCode = 2
    /\ maxAttempts > 1
    /\ Len(spawnLog) = 1
    /\ spawnLog[1].how = "close" /\ spawnLog[1].code = 2
    /\ ~spawnLog[1].detected

\* The bounds of C9 on what a run has done so far.
C9_Bounds ==
    opc # "idle" =>
        /\ attempt <= maxAttempts + 1
        /\ \A k \in DOMAIN spawnLog : spawnLog[k].attempt <= maxAttempts
        /\ Len(spawnLog) <= IF initialBedrock /\ hasAnthropicKey
                            THEN 2 * maxAttempts
                            ELSE maxAttempts

\* C9: when every spawned client exits, runClaudeWithRetry terminates, after at
\* most maxAttempts outer attempts; it spawns at most maxAttempts clients when no
\* inner failover applies and at most 2 * maxAttempts when primary is preferred
\* and a secondary key is configured.
C9_BoundedAndTerminates == []C9_Bounds /\ <>Terminated

\* Both bounds are attained: a run with failover has spawned 2 * maxAttempts
\* clients and thrown.
C9_AllAttemptsUsed ==
    /\ opc = "thrown"
    /\ maxAttempts = MaxAttemptsBound
    /\ attempt = maxAttempts + 1
    /\ Len(spawnLog) = 2 * maxAttempts

\* C10: when the attempts are exhausted, runClaudeWithRetry throws an error, and
\* it is the error of the last client run spawned.
C10_ExhaustionThrowsLastError ==
    (opc = "thrown" /\ attempt > maxAttempts) =>
        /\ thrown.kind = "rate limit"
        /\ Len(spawnLog) >= 1
        /\ thrown.spawn = Len(spawnLog)
        /\ thrown.code = spawnLog[Len(spawnLog)].exitCode

\* C11: a spawn is an inner failover spawn only directly after an outer spawn of
\* the same attempt that ran with the primary preference and exited non-zero with
\* a detected rate-limit indicator, primary having been preferred at startup and
\* a secondary key being set; it runs with the preference switched to secondary.
\* Under those conditions the next spawn is always that inner one, before the
\* attempt counter advances; and after an inner spawn the next spawn, if any, is
\* the outer spawn of the next attempt.
C11_InnerFailover ==
    /\ \A k \in DOMAIN spawnLog :
          spawnLog[k].inner =>
              /\ k > 1
              /\ ~spawnLog[k - 1].inner
              /\ RateLimited(k - 1)
              /\ spawnLog[k - 1].attempt = spawnLog[k].attempt
              /\ spawnLog[k - 1].flag = "1"
              /\ spawnLog[k].flag = "0"
              /\ initialBedrock
              /\ hasAnthropicKey
    /\ \A k \in DOMAIN spawnLog :
          (~spawnLog[k].inner /\ RateLimited(k) /\ initialBedrock /\ hasAnthropicKey) =>
              IF k < Len(spawnLog)
              THEN spawnLog[k + 1].inner
              ELSE inner /\ attempt = spawnLog[k].attempt
    /\ \A k \in DOMAIN spawnLog :
          (spawnLog[k].inner /\ k < Len(spawnLog)) =>
              /\ RateLimited(k)
              /\ ~spawnLog[k + 1].inner
              /\ spawnLog[k + 1].attempt = spawnLog[k].attempt + 1

\* The inner spawn of attempt 1 failed with an indicator too, and the outer spawn
\* of attempt 2 followed it.
C11_InnerFailedThenNextAttempt ==
    /\ Len(spawnLog) = 3
    /\ spawnLog[2].inner /\ RateLimited(2)
    /\ spawnLog[2].attempt = 1
    /\ spawnLog[3].attempt = 2

\* C12: handling a request to /health leaves stats as it is, every counter and
\* lastError, makes no forward call, and answers with a snapshot equal to stats
\* at the time of the call; nothing is ever added to a counter on behalf of such
\* a request.
C12_HealthIsReadOnly ==
    /\ [](\A r \in Requests :
             request[r].path = "/health" =>
                 /\ pc[r] = "done"
                 /\ response[r].kind = "health"
                 /\ delta[r] = ZeroStats
                 /\ calls[r] = <<>>)
    /\ [][\A r \in Requests :
             (pc[r] = "idle" /\ request'[r].path = "/health") =>
                 /\ stats' = stats
                 /\ response'[r].stats = stats
                 /\ response'[r].status = 200]_vars

\* A health request was answered while an inference request was in flight: its
\* snapshot shows the request counted and not yet succeeded, and stats has moved
\* on since.
C12_SnapshotDuringTraffic ==
    \E r \in Requests :
        /\ request[r].path = "/health"
        /\ response[r].stats.counters.requests = 1
        /\ response[r].stats.counters.successes = 0
        /\ stats.counters.successes = 1

\* C13: a request to a path that is neither /health nor /v1/messages, or to
\* /v1/messages with a method other than POST, is answered 404 at once: handling
\* it changes no counter and no lastError, and no forward call is ever made and
\* nothing ever counted on its behalf.
C13_NotFoundIsInert ==
    /\ [](\A r \in Requests :
             (\/ request[r].path = "/other"
              \/ request[r].path = "/v1/messages" /\ request[r].method # "POST") =>
                 /\ pc[r] = "done"
                 /\ response[r] = NotFoundResponse
                 /\ delta[r] = ZeroStats
                 /\ calls[r] = <<>>)
    /\ [][\A r \in Requests :
             (/\ pc[r] = "idle"
              /\ \/ request'[r].path = "/other"
                 \/ request'[r].path = "/v1/messages" /\ request'[r].method # "POST") =>
                 stats' = stats]_vars

\* Both cases have happened: a GET to /v1/messages and a POST elsewhere were both
\* answered 404.
C13_BothKindsNotFound ==
    /\ request[1] = [path |-> "/v1/messages", method |-> "GET"]
    /\ request[2] = [path |-> "/other", method |-> "POST"]
    /\ response[1].status = 404
    /\ response[2].status = 404

\* C14: a forward call to a provider is started only while that provider's
\* credential is present: with the primary credential absent when the request is
\* handled (the orchestrator has deleted it) no primary call is made, and the
\* secondary is called only with its credential present and after the primary
\* call, if one was made, did not succeed.
C14_ProviderOnlyWhenCredentialed ==
    \A r \in Requests :
        \A i \in DOMAIN calls[r] :
            calls[r][i].event = "start" =>
                /\ Trimmed(calls[r][i].credential)
                /\ calls[r][i].provider = "anthropic" =>
                       \A j \in 1..(i - 1) :
                           calls[r][j].provider = "bedrock" =>
                               (Failed(r, "bedrock") /\ ~Succeeded(r, "bedrock"))

C16_NoCredentialsNoSuccess ==
    (~Trimmed(env.AWS_BEARER_TOKEN_BEDROCK) /\ ~Trimmed(env.ANTHROPIC_API_KEY)) =>
        /\ ~ShouldUseProxy(env)
        /\ GetProxyMode(env) = "direct"
        /\ proxyServer = "null"
        /\ stats.counters.successes = 0
        /\ \A r \in Requests :
              /\ pc[r] \in {"idle", "refused"}
              /\ ~Called(r, "bedrock")
              /\ ~Called(r, "anthropic")

\* With a whitespace-only token and no key, startup has failed and both requests
\* sent were refused.
C16_StartRefusedWithoutCredentials ==
    /\ env.AWS_BEARER_TOKEN_BEDROCK = "blank"
    /\ env.ANTHROPIC_API_KEY = "unset"
    /\ exited /\ exitCode = 1
    /\ \A r \in Requests : pc[r] = "refused"

C18_SuccessOnlyOnExitZero ==
    /\ (opc = "returned" \/ conclusion = "success") =>
          /\ Len(spawnLog) >= 1
          /\ spawnLog[Len(spawnLog)].how = "close"
          /\ spawnLog[Len(spawnLog)].code = 0
    /\ \A k \in DOMAIN spawnLog :
          spawnLog[k].how \in {"signal", "error"} =>
              /\ k = Len(spawnLog)
              /\ exited
              /\ exitCode # 0

\* C19: initialBedrock is fixed when runClaudeWithRetry starts, as whether
\* CLAUDE_CODE_USE_BEDROCK is "1" then, and never changes afterwards; when it is
\* set, every outer attempt begins with the flag put back to "1", also after an
\* inner failover has set it to "0", so the first client of every outer attempt
\* is spawned with the primary preference.
C19_OuterAttemptsStartOnPrimary ==
    /\ [](initialBedrock =>
            /\ \A k \in DOMAIN spawnLog : ~spawnLog[k].inner => spawnLog[k].flag = "1"
            /\ (opc = "prepare" /\ ~inner) => env.CLAUDE_CODE_USE_BEDROCK = "1")
    /\ [][(opc = "idle" /\ opc' # "idle") =>
             initialBedrock' = (env.CLAUDE_CODE_USE_BEDROCK = "1")]_vars
    /\ [][opc # "idle" => initialBedrock' = initialBedrock]_vars

\* The inner client of attempt 1 ran with the flag at "0", and the outer client of
\* attempt 2 was spawned with it back at "1".
C19_ResetAfterInnerFailover ==
    /\ Len(spawnLog) = 3
    /\ spawnLog[2].inner /\ spawnLog[2].flag = "0"
    /\ ~spawnLog[3].inner /\ spawnLog[3].flag = "1"
    /\ spawnLog[3].attempt = 2

\* C20: a client run is classified as rate-limited exactly when it exits non-zero
\* and its whole output, the chunks put together, contains one of the four
\* indicators, however the output was split into chunks.
C20_ClassifiedOnCombinedOutput ==
    \A k \in DOMAIN spawnLog :
        HasExited(k) =>
            (RateLimited(k) <=> (spawnLog[k].exitCode # 0 /\ spawnLog[k].indicated))

\* C21: during a run of runClaudeWithRetry at most one client process is alive:
\* when a client is spawned, outer or inner, every client spawned before it has
\* been seen to exit.
C21_OneClientAlive ==
    /\ alive <= 1
    /\ alive = Cardinality({k \in DOMAIN spawnLog : ~HasExited(k)})
    /\ \A k \in DOMAIN spawnLog : k < Len(spawnLog) => HasExited(k)

\* The inner failover client of attempt 1 is alive, alone: the outer client
\* before it has exited.
C21_InnerClientAliveAlone ==
    /\ Len(spawnLog) = 2
    /\ HasExited(1)
    /\ spawnLog[2].inner /\ ~HasExited(2)
    /\ alive = 1

\* C22: a SIGTERM or SIGINT handled while the listener runs stops it and resets
\* proxyServer to null in the step that ends the process with code 0, so the
\* process never ends that way with the listener still up; and stopProxyServer
\* called with no listener running changes nothing and does not end the process.
C22_OrderlyShutdown ==
    /\ []((exited /\ exitCode = 0) => proxyServer = "null")
    /\ [][(signalHandlers /\ exited' /\ ~exited /\ exitCode' = 0) =>
             (proxyServer' = "null" /\ stopCalls' = stopCalls + 1)]_vars
    /\ [][(stopCalls' = stopCalls + 1 /\ proxyServer = "null") =>
             /\ proxyServer' = "null"
             /\ UNCHANGED <<env, proxyPort, signalHandlers, stats, request, pc,
                            bedrockError, bedrockResponse, response, calls, delta>>
             /\ exited' => signalHandlers]_vars

\* A signal arrived while the listener was running with a request in flight:
\* the process has exited with 0 after one stopProxyServer, proxyServer is null.
C22_StoppedBySignalInFlight ==
    /\ exited /\ exitCode = 0
    /\ proxyServer = "null"
    /\ stopCalls = 1
    /\ pc[1] = "awaitBedrock"

\* C23: if AWS_BEARER_TOKEN_BEDROCK was present when the first client was
\* spawned, it is present at every spawn made with CLAUDE_CODE_USE_BEDROCK = "1",
\* and throughout every outer attempt, for the router too: an inner failover
\* does not remove it for good.
C23_PrimaryCredentialKept ==
    (Len(spawnLog) >= 1 /\ Trimmed(spawnLog[1].token)) =>
        /\ \A k \in DOMAIN spawnLog :
              spawnLog[k].flag = "1" => Trimmed(spawnLog[k].token)
        /\ (opc \in {"prepare", "client"} /\ ~inner) =>
              Trimmed(env.AWS_BEARER_TOKEN_BEDROCK)

\* The accepted requests whose handler has not returned yet.
InFlight == {r \in Requests : Accepted(r) /\ pc[r] # "done"}

\* C24: in every state of the proxy, requests in flight included, requests =
\* successes + failures + the number of accepted requests that have not reached
\* a terminal outcome; and no step lowers a counter.
C24_BalanceWithInFlight ==
    /\ [](stats.counters.requests =
             stats.counters.successes + stats.counters.failures
             + Cardinality(InFlight))
    /\ [][\A field \in DOMAIN ZeroStats :
             stats'.counters[field] >= stats.counters[field]]_vars

\* C25: in every state of the proxy bedrockSuccesses <= successes, failures <=
\* anthropicFailovers and (successes - bedrockSuccesses) + failures <=
\* anthropicFailovers; with no request in flight, bedrockSuccesses +
\* anthropicFailovers = requests and (successes - bedrockSuccesses) + failures =
\* anthropicFailovers.
C25_CounterRelations ==
    LET c == stats.counters IN
    /\ c.bedrockSuccesses <= c.successes
    /\ c.failures <= c.anthropicFailovers
    /\ (c.successes - c.bedrockSuccesses) + c.failures <= c.anthropicFailovers
    /\ InFlight = {} =>
          /\ c.bedrockSuccesses + c.anthropicFailovers = c.requests
          /\ (c.successes - c.bedrockSuccesses) + c.failures = c.anthropicFailovers

\* C26: the response to an inference request is always the primary's 2xx
\* response, the secondary's response with its own status, or the failure
\* document built by the handler with status 500: never the primary's non-2xx
\* response, and never the answer to a handler that rejected.
C26_ResponseKinds ==
    \A r \in Requests :
        (Accepted(r) /\ pc[r] = "done") =>
            \/ response[r].kind = "bedrock" /\ Ok(response[r].status)
               /\ Succeeded(r, "bedrock")
            \/ response[r].kind = "anthropic" /\ Called(r, "anthropic")
               /\ \E i \in Ends(r, "anthropic") :
                     /\ ~calls[r][i].outcome.threw
                     /\ calls[r][i].outcome.status = response[r].status
            \/ response[r].kind = "failure" /\ response[r].status = 500
               /\ Failed(r, "bedrock") /\ Failed(r, "anthropic")

====
